---- MODULE Spec2Model ----
(***************************************************************************)
(* redux-query-sync: bidirectional synchronisation between a Redux store   *)
(* and the query parameters of the window location                         *)
(* (src/src/redux-query-sync.js).                                          *)
(*                                                                         *)
(* The engine is configured as in the README's examples: parameter `p` is  *)
(* the page number (stringToValue parses an integer and maps invalid       *)
(* strings to 1, defaultValue 1) and parameter `dest` is the destination   *)
(* string (default conversions, defaultValue undefined); or, alone,        *)
(* parameter `selection`, an array of numbers (stringToValue parses an     *)
(* integer and maps invalid strings to 0, defaultValue []).                *)
(*                                                                         *)
(* The handlers run synchronously and re-enter each other through the      *)
(* store's and the history's subscriber notifications, so they are written *)
(* as mutually recursive operators on a record `w` that holds the mutable  *)
(* world (store state, history location, the engine's closure variables)   *)
(* and a log of what the engine did during the current external event.     *)
(***************************************************************************)
EXTENDS Integers, Sequences, FiniteSets, TLC

(* ------------------------------ bounds --------------------------------- *)

\* Page numbers the application state holds: 1..MaxPage.
MaxPage == 2

\* Longest query string (in key=value pairs) an external navigation writes.
MaxQueryLen == 2

(* ----------------------- values and conversions ------------------------ *)

\* JavaScript's `undefined`, as a value distinct from every string the
\* application uses (in particular from the string "undefined").
Undefined == "<undefined>"

\* Decimal numerals, indexed by the number they denote.
Digits == <<"1", "2", "3", "4", "5", "6", "7", "8", "9">>

\* Number.parseInt's result for a string that is no number.
NaN == -1

\* The strings of a numeral, a comma and a numeral, with the number of the
\* first numeral.
LeadingNumber ==
    [string \in {Digits[n] \o "," \o Digits[m] : n, m \in DOMAIN Digits} |->
        CHOOSE n \in DOMAIN Digits :
            \E m \in DOMAIN Digits : Digits[n] \o "," \o Digits[m] = string]

\* Number.parseInt(string): the number of the leading numeral (of a numeral
\* alone, or one followed by a comma and another).
parseInt(string) ==
    IF \E n \in DOMAIN Digits : Digits[n] = string
    THEN CHOOSE n \in DOMAIN Digits : Digits[n] = string
    ELSE IF string = "0" THEN 0
    ELSE IF string \in DOMAIN LeadingNumber THEN LeadingNumber[string]
    ELSE NaN

\* JavaScript truthiness of a number (the left operand of `||`).
Truthy(n) == n # 0 /\ n # NaN

\* `${value}`: JavaScript's automatic string conversion.
templateString(value) ==
    IF value = Undefined THEN "undefined" ELSE value

\* A number, and an array of numbers, as values of the state's `selection`:
\* for an array `items` are its elements, for a number n they are <<n>>.
Number(n) == [kind |-> "number", items |-> <<n>>]

Array(items) == [kind |-> "array", items |-> items]

\* The array object the configuration gives as defaultValue of `selection`;
\* no other array, empty or not, is `===` to it.
DefaultArray == [kind |-> "default", items |-> <<>>]

\* Array.prototype.join(','), which `${array}` comes to.
RECURSIVE join(_)
join(items) ==
    IF items = <<>> THEN ""
    ELSE IF Len(items) = 1 THEN Digits[items[1]]
    ELSE Digits[items[1]] \o "," \o join(Tail(items))

\* `${value}` for a number or an array of numbers.
templateStringOfNumbers(value) ==
    IF value.kind = "number"
    THEN IF value.items[1] = 0 THEN "0" ELSE Digits[value.items[1]]
    ELSE join(value.items)

VARIABLE params     \* Object.keys(options.params), in enumeration order

ParamKeys == params

ParamSet == {ParamKeys[i] : i \in DOMAIN ParamKeys}

\* params[param].defaultValue
defaultValue(param) ==
    CASE param = "p" -> 1
      [] param = "dest" -> Undefined
      [] param = "selection" -> DefaultArray

\* params[param].stringToValue (default: s => s)
stringToValue(param, valueString) ==
    CASE param = "p" ->
           IF Truthy(parseInt(valueString)) THEN parseInt(valueString) ELSE 1
      [] param = "dest" -> valueString
      [] param = "selection" ->
           Number(IF Truthy(parseInt(valueString))
                  THEN parseInt(valueString) ELSE 0)

\* params[param].valueToString (default: v => `${v}`)
valueToString(param, value) ==
    CASE param = "p" -> Digits[value]
      [] param = "dest" -> templateString(value)
      [] param = "selection" -> templateStringOfNumbers(value)

\* params[param].selector
selector(param, state) ==
    CASE param = "p" -> state.pageNumber
      [] param = "dest" -> state.destination
      [] param = "selection" -> state.selection

\* params[param].action
action(param, value) ==
    CASE param = "p" -> [type |-> "setPageNumber", payload |-> value]
      [] param = "dest" -> [type |-> "setDestination", payload |-> value]
      [] param = "selection" -> [type |-> "setSelection", payload |-> value]

\* The application's reducer: each action sets its field of the state.
reducer(state, a) ==
    CASE a.type = "setPageNumber" -> [state EXCEPT !.pageNumber = a.payload]
      [] a.type = "setDestination" -> [state EXCEPT !.destination = a.payload]
      [] a.type = "setSelection" -> [state EXCEPT !.selection = a.payload]
      [] OTHER -> state

(* ---------------------------- query strings ---------------------------- *)

\* A search string is modelled by the key/value pairs it parses to and by
\* its spelling: "none" is the empty string, "ser" is "?" followed by the
\* serialisation URLSearchParams gives the pairs (so "?" alone is the
\* serialisation of no pairs).
SearchOf(pairs) == [form |-> "ser", pairs |-> pairs]

EmptySearch == [form |-> "none", pairs |-> <<>>]

\* A fresh URLSearchParams instead of the location's.
searchParamsForgotten(location) == <<>>

\* new URL('http://bogus' + location.search).searchParams
searchParams(location) == location.search.pairs

\* `?${locationParams}`
searchString(locationParams) == SearchOf(locationParams)

\* location.search || '?'
searchOrQuestionMark(location) ==
    IF location.search.form = "none" THEN SearchOf(<<>>) ELSE location.search

HasKey(locationParams, param) ==
    \E i \in DOMAIN locationParams : locationParams[i][1] = param

FirstIndex(locationParams, param) ==
    CHOOSE i \in DOMAIN locationParams :
        /\ locationParams[i][1] = param
        /\ \A j \in 1..(i - 1) : locationParams[j][1] # param

\* URLSearchParams.get: the first value of the key, or null.
Null == "<null>"

paramsGet(locationParams, param) ==
    IF HasKey(locationParams, param)
    THEN locationParams[FirstIndex(locationParams, param)][2]
    ELSE Null

\* URLSearchParams.delete: removes every pair of the key.
paramsDelete(locationParams, param) ==
    SelectSeq(locationParams, LAMBDA pair : pair[1] # param)

\* URLSearchParams.set: the first pair of the key gets the value and the
\* key's other pairs are removed; a key that is absent is appended.
paramsSet(locationParams, param, valueString) ==
    IF HasKey(locationParams, param)
    THEN LET first == FirstIndex(locationParams, param)
             head == SubSeq(locationParams, 1, first - 1)
             tail == SubSeq(locationParams, first + 1, Len(locationParams))
         IN  head \o <<(<<param, valueString>>)>> \o paramsDelete(tail, param)
    ELSE Append(locationParams, <<param, valueString>>)

(* ------------------------------ the engine ----------------------------- *)

\* `let lastQueryValues`: undefined until the first pass sets it.
NoQueryValues == <<>>

\* What the engine did since the current external event began: the actions
\* it dispatched, the navigations it performed, the parameters its latest
\* location pass found changed, how many times each handler ran to its end
\* or returned at its guard, and whether an exception is propagating.
EmptyLog ==
    [dispatched |-> <<>>, navigations |-> <<>>, changed |-> {},
     locationPasses |-> 0, locationIgnored |-> 0,
     statePasses |-> 0, stateIgnored |-> 0, raised |-> FALSE]

getQueryValues(location) ==
    LET locationParams == searchParams(location)
    IN  [param \in ParamSet |->
            LET valueString == paramsGet(locationParams, param)
            IN  IF valueString = Null
                THEN defaultValue(param)
                ELSE stringToValue(param, valueString)]

\* The guard left out.
locationUpdateNeverIgnored(w) == FALSE

\* `if (ignoreLocationUpdate) return`
locationUpdateIgnored(w) == w.ignoreLocationUpdate

\* The guard left out.
stateUpdateNeverIgnored(w) == FALSE

\* `if (ignoreStateUpdate) return`
stateUpdateIgnored(w) == w.ignoreStateUpdate

\* Every parameter processed unconditionally.
hasChangedAlways(lastValues, param, value) == TRUE

\* `lastQueryValues === undefined || lastQueryValues[param] !== value`
hasChanged(lastValues, param, value) ==
    \/ lastValues = NoQueryValues
    \/ lastValues[param] # value

\* The comparison with the state left out.
needsDispatchAlways(state, param, value) == TRUE

\* `selector(state) !== value`
needsDispatch(state, param, value) == selector(param, state) # value

\* The forEach that fills actionsToDispatch, in key-enumeration order.
actionsToDispatch(lastValues, state, queryValues) ==
    LET changedKeys ==
            SelectSeq(ParamKeys, LAMBDA param :
                /\ hasChanged(lastValues, param, queryValues[param])
                /\ needsDispatch(state, param, queryValues[param]))
    IN  [i \in 1..Len(changedKeys) |->
            action(changedKeys[i], queryValues[changedKeys[i]])]

\* The default value written like any other value.
replaceParamKeepDefault(locationParams, param, state) ==
    paramsSet(locationParams, param,
              valueToString(param, selector(param, state)))

\* One iteration of `Replace each configured parameter with its value in
\* the state`, on the query parameters.
replaceParam(locationParams, param, state) ==
    LET value == selector(param, state)
    IN  IF value = defaultValue(param)
        THEN paramsDelete(locationParams, param)
        ELSE paramsSet(locationParams, param, valueToString(param, value))

RECURSIVE replaceParams(_, _, _)
replaceParams(locationParams, keys, state) ==
    IF keys = <<>>
    THEN locationParams
    ELSE replaceParams(replaceParam(locationParams, Head(keys), state),
                       Tail(keys), state)

\* The cache left as the latest location pass filled it.
rememberNothing(lastValues, state) == lastValues

\* `lastQueryValues[param] = value` for every configured parameter.
rememberState(lastValues, state) ==
    [param \in ParamSet |-> selector(param, state)]

\* The location updated on every pass.
searchAlwaysDiffers(newLocationSearchString, oldLocationSearchString) == TRUE

\* `newLocationSearchString !== oldLocationSearchString`
searchDiffers(newLocationSearchString, oldLocationSearchString) ==
    newLocationSearchString # oldLocationSearchString

\* `replaceState ? history.replace : history.push`
updateMethod(replace) == IF replace THEN "replace" ELSE "push"

\* `const history = createHistory()`: a history object of the engine's own.
createHistory == "created"

\* The location history.push and history.replace make of the `{search}` they
\* are called with: the path is the current one, the hash is empty and there
\* is no state.
createLocation(path, currentLocation) ==
    [pathname |-> currentLocation.pathname, search |-> path.search,
     hash |-> "", state |-> Undefined]

\* The flag left set.
locationGuardKept(w) == w

\* `ignoreLocationUpdate = false`, after the location was updated.
locationGuardCleared(w) == [w EXCEPT !.ignoreLocationUpdate = FALSE]

\* `ignoreStateUpdate = false`, after the actions were dispatched.
stateGuardCleared(w) == [w EXCEPT !.ignoreStateUpdate = FALSE]

RECURSIVE handleLocationUpdate(_, _)
RECURSIVE handleStateUpdate(_)
RECURSIVE dispatchEach(_, _)
RECURSIVE storeDispatch(_, _)
RECURSIVE updateLocation(_, _)

\* store.dispatch: the reducer runs, then the store calls its subscribers in
\* the order they subscribed, the engine's handleStateUpdate among them;
\* another subscriber dispatches, once per action of `reaction`, an action of
\* its own from inside the notification. An exception of the reducer or of
\* a subscriber ends the dispatch.
storeDispatch(w, a) ==
    IF w.fails = "dispatch"
    THEN [w EXCEPT !.log.raised = TRUE]
    ELSE LET reduced == [w EXCEPT !.state = reducer(w.state, a)]
             engine(x) ==
                 IF x.log.raised \/ ~x.subscribed
                 THEN x
                 ELSE handleStateUpdate(x)
             other(x) ==
                 IF x.log.raised \/ x.reaction = <<>>
                 THEN x
                 ELSE storeDispatch([x EXCEPT !.reaction = Tail(@)],
                                    Head(x.reaction))
         IN  IF w.otherFirst
             THEN engine(other(reduced))
             ELSE other(engine(reduced))

\* history.push / history.replace with {search}: the location becomes the
\* one made of the path, then the history calls its listeners with it. An
\* exception of the browser's pushState or replaceState ends the call.
updateLocation(w, path) ==
    IF w.fails = "updateLocation"
    THEN [w EXCEPT !.log.raised = TRUE]
    ELSE LET moved == [w EXCEPT
                         !.location = createLocation(path, w.location),
                         !.log.navigations = Append(@,
                             [method |-> updateMethod(w.replaceState),
                              search |-> path.search])]
         IN  IF w.listening
             THEN handleLocationUpdate(moved, moved.location)
             ELSE moved

\* `actionsToDispatch.forEach(action => { dispatch(action) })`
dispatchEach(w, actions) ==
    IF actions = <<>> \/ w.log.raised
    THEN w
    ELSE dispatchEach(
            storeDispatch([w EXCEPT !.log.dispatched = Append(@, Head(actions))],
                          Head(actions)),
            Tail(actions))

handleLocationUpdate(w, location) ==
    IF locationUpdateIgnored(w)
    THEN [w EXCEPT !.log.locationIgnored = @ + 1]
    ELSE LET state == w.state
             queryValues == getQueryValues(location)
             actions == actionsToDispatch(w.lastQueryValues, state, queryValues)
             guarded ==
                 [w EXCEPT
                    !.lastQueryValues = queryValues,
                    !.ignoreStateUpdate = TRUE,
                    !.log.changed =
                        {param \in ParamSet :
                            hasChanged(w.lastQueryValues, param,
                                       queryValues[param])}]
             dispatched == dispatchEach(guarded, actions)
         IN  IF dispatched.log.raised
             THEN dispatched
             ELSE [stateGuardCleared(dispatched) EXCEPT
                      !.log.locationPasses = @ + 1]

handleStateUpdate(w) ==
    IF stateUpdateIgnored(w)
    THEN [w EXCEPT !.log.stateIgnored = @ + 1]
    ELSE LET state == w.state
             location == w.location
             locationParams ==
                 replaceParams(searchParams(location), ParamKeys, state)
             newLocationSearchString == searchString(locationParams)
             oldLocationSearchString == searchOrQuestionMark(location)
             remembered ==
                 [w EXCEPT !.lastQueryValues = rememberState(@, state),
                           !.log.statePasses = @ + 1]
         IN  IF searchDiffers(newLocationSearchString, oldLocationSearchString)
             THEN LET guarded == [remembered EXCEPT !.ignoreLocationUpdate = TRUE]
                      updated ==
                          updateLocation(guarded,
                                         [search |-> newLocationSearchString])
                  IN  IF updated.log.raised
                      THEN updated
                      ELSE locationGuardCleared(updated)
             ELSE remembered

\* Any initialTruth but 'store' taken for 'location'.
truthIsNotStore(truth) == truth # "store"

\* `initialTruth === 'location'`
truthIsLocation(truth) == truth = "location"

\* `initialTruth === 'store'`
truthIsStore(truth) == truth = "store"

\* The body of ReduxQuerySync: the two subscriptions, then the initial sync.
construct(w) ==
    LET subscribed == [w EXCEPT !.history = createHistory,
                                !.listening = TRUE, !.subscribed = TRUE]
        fromLocation ==
            IF truthIsLocation(w.initialTruth)
            THEN handleLocationUpdate(subscribed, subscribed.location)
            ELSE [subscribed EXCEPT
                    !.lastQueryValues = getQueryValues(subscribed.location)]
    IN  IF truthIsStore(w.initialTruth) /\ ~fromLocation.log.raised
        THEN handleStateUpdate(fromLocation)
        ELSE fromLocation

\* Only the store's subscription removed.
unsubscribeFromStoreOnly(w) == [w EXCEPT !.subscribed = FALSE]

\* The function ReduxQuerySync returns.
unsubscribe(w) == [w EXCEPT !.listening = FALSE, !.subscribed = FALSE]

(* ------------------------------ the state ------------------------------ *)

VARIABLES
    state,                \* store.getState()
    location,             \* history.location
    replaceState,         \* options.replaceState
    initialTruth,         \* options.initialTruth
    historyOption,        \* options.history
    history,              \* the history object the engine works on
    ignoreLocationUpdate,
    ignoreStateUpdate,
    lastQueryValues,
    listening,            \* handleLocationUpdate is a listener of the history
    subscribed,           \* handleStateUpdate is a subscriber of the store
    constructed,          \* ReduxQuerySync has been called
    unsubscribed,         \* the function it returned has been called
    last                  \* the latest external event and the engine's log of it

vars == <<state, location, params, replaceState, initialTruth, historyOption,
          history, ignoreLocationUpdate, ignoreStateUpdate, lastQueryValues,
          listening, subscribed, constructed, unsubscribed, last>>

Pages == 1..MaxPage

Destinations == {Undefined, "a", "undefined"}

States == [pageNumber : Pages, destination : Destinations]

\* What an external navigation writes for `p`: the default, another page,
\* and a string that is no number.
PageStrings == {"1", "2", "x"}

Pairs ==
    ({"p"} \X PageStrings) \cup ({"dest"} \X {"a"})
        \cup {<<"other", "keep">>}

Queries == UNION {[1..n -> Pairs] : n \in 0..MaxQueryLen}

Searches == {EmptySearch} \cup {SearchOf(pairs) : pairs \in Queries}

\* The locations of a page without hash and navigation state.
Locations ==
    {[pathname |-> "/", search |-> search, hash |-> "", state |-> Undefined] :
        search \in Searches}

AppActions ==
    {action("p", n) : n \in Pages}
        \cup {action("dest", d) : d \in Destinations}
        \cup {[type |-> "@@other", payload |-> Undefined]}

\* The mutable world the handlers work on, with an empty log, no other
\* subscriber of the store that dispatches and nothing that raises.
World ==
    [state |-> state, location |-> location,
     replaceState |-> replaceState, initialTruth |-> initialTruth,
     history |-> history,
     ignoreLocationUpdate |-> ignoreLocationUpdate,
     ignoreStateUpdate |-> ignoreStateUpdate,
     lastQueryValues |-> lastQueryValues,
     listening |-> listening, subscribed |-> subscribed,
     reaction |-> <<>>, otherFirst |-> FALSE, fails |-> "none",
     log |-> EmptyLog]

\* The world after an external event, written back to the variables.
Becomes(w, event, delivered) ==
    /\ state' = w.state
    /\ location' = w.location
    /\ ignoreLocationUpdate' = w.ignoreLocationUpdate
    /\ ignoreStateUpdate' = w.ignoreStateUpdate
    /\ lastQueryValues' = w.lastQueryValues
    /\ history' = w.history
    /\ listening' = w.listening
    /\ subscribed' = w.subscribed
    /\ last' = [event |-> event, delivered |-> delivered, log |-> w.log]
    /\ UNCHANGED <<params, replaceState, initialTruth, historyOption>>

\* ReduxQuerySync has not been called yet.
NotConstructed ==
    /\ history = Undefined
    /\ ignoreLocationUpdate = FALSE
    /\ ignoreStateUpdate = FALSE
    /\ lastQueryValues = NoQueryValues
    /\ listening = FALSE
    /\ subscribed = FALSE
    /\ constructed = FALSE
    /\ unsubscribed = FALSE
    /\ last = [event |-> "none", delivered |-> <<>>, log |-> EmptyLog]

Init ==
    /\ state \in States
    /\ location \in Locations
    /\ params = <<"p", "dest">>
    /\ replaceState \in BOOLEAN
    /\ initialTruth \in {"location", "store", Undefined}
    /\ historyOption = Undefined
    /\ NotConstructed

\* The application calls ReduxQuerySync({store, params, ...}).
Construct ==
    /\ ~constructed
    /\ constructed' = TRUE
    /\ Becomes(construct(World), "construct", <<>>)
    /\ UNCHANGED unsubscribed

\* The application dispatches an action to the store.
Dispatch ==
    /\ constructed
    /\ \E a \in AppActions :
          Becomes(storeDispatch(World, a), "dispatch", <<a>>)
    /\ UNCHANGED <<constructed, unsubscribed>>

\* The location changes from outside the engine (a link, the back button,
\* another user of the history): the history calls its listeners.
Navigate ==
    /\ constructed
    /\ \E newLocation \in Locations :
          LET moved == [World EXCEPT !.location = newLocation]
          IN  Becomes(IF listening
                      THEN handleLocationUpdate(moved, newLocation)
                      ELSE moved,
                      "navigate", <<newLocation>>)
    /\ UNCHANGED <<constructed, unsubscribed>>

Next == Construct \/ Dispatch \/ Navigate

Spec == Init /\ [][Next]_vars

\* The application calls the function ReduxQuerySync returned.
Unsubscribe ==
    /\ constructed
    /\ ~unsubscribed
    /\ unsubscribed' = TRUE
    /\ Becomes(unsubscribe(World), "unsubscribe", <<>>)
    /\ UNCHANGED constructed

\* The engine as the README's first example constructs it (initialTruth
\* 'location', no replaceState), with its teardown.
InitTeardown == Init /\ initialTruth = "location" /\ ~replaceState

NextTeardown == Construct \/ Dispatch \/ Navigate \/ Unsubscribe

SpecTeardown == InitTeardown /\ [][NextTeardown]_vars

\* The application navigates through the history object it passed as
\* options.history: that object calls its listeners, and the engine's own
\* history object, which did not navigate, keeps its location.
Push ==
    /\ constructed
    /\ historyOption # Undefined
    /\ \E newLocation \in Locations :
          LET moved == [World EXCEPT !.location = newLocation]
          IN  Becomes(IF listening /\ history = historyOption
                      THEN handleLocationUpdate(moved, newLocation)
                      ELSE World,
                      "push", <<newLocation>>)
    /\ UNCHANGED <<constructed, unsubscribed>>

\* The engine given the application's history object.
InitHistory ==
    /\ state \in States
    /\ location \in Locations
    /\ params = <<"p", "dest">>
    /\ replaceState = FALSE
    /\ initialTruth = "location"
    /\ historyOption = "supplied"
    /\ NotConstructed

NextHistory == Construct \/ Dispatch \/ Navigate \/ Push

SpecHistory == InitHistory /\ [][NextHistory]_vars

\* Locations of a page with a hash and a navigation state.
Hashes == {"", "#top"}

NavigationStates == {Undefined, "scroll"}

AnchoredLocations ==
    {[pathname |-> "/page", search |-> search, hash |-> hash, state |-> st] :
        search \in {EmptySearch}
                      \cup {SearchOf(<<pair>>) : pair \in Pairs},
        hash \in Hashes, st \in NavigationStates}

\* The application navigates, or the user does, to a location with a hash or
\* a navigation state.
NavigateAnchored ==
    /\ constructed
    /\ \E newLocation \in AnchoredLocations :
          LET moved == [World EXCEPT !.location = newLocation]
          IN  Becomes(IF listening
                      THEN handleLocationUpdate(moved, newLocation)
                      ELSE moved,
                      "navigate", <<newLocation>>)
    /\ UNCHANGED <<constructed, unsubscribed>>

InitAnchored ==
    /\ state \in States
    /\ location \in AnchoredLocations
    /\ params = <<"p", "dest">>
    /\ replaceState \in BOOLEAN
    /\ initialTruth \in {"location", "store"}
    /\ historyOption = Undefined
    /\ NotConstructed

NextAnchored == Construct \/ Dispatch \/ NavigateAnchored

SpecAnchored == InitAnchored /\ [][NextAnchored]_vars

\* The location changes from outside the engine while the store's dispatch
\* raises (the reducer, or another subscriber of the store, throws).
NavigateDispatchRaises ==
    /\ constructed
    /\ \E newLocation \in Locations :
          LET moved == [World EXCEPT !.location = newLocation,
                                     !.fails = "dispatch"]
          IN  Becomes(IF listening
                      THEN handleLocationUpdate(moved, newLocation)
                      ELSE moved,
                      "navigate", <<newLocation>>)
    /\ UNCHANGED <<constructed, unsubscribed>>

\* The application dispatches an action while the history's push and replace
\* raise (the browser refuses pushState or replaceState).
DispatchUpdateRaises ==
    /\ constructed
    /\ \E a \in AppActions :
          Becomes(storeDispatch([World EXCEPT !.fails = "updateLocation"], a),
                  "dispatch", <<a>>)
    /\ UNCHANGED <<constructed, unsubscribed>>

InitFailure == Init /\ initialTruth = "location" /\ ~replaceState

NextFailure ==
    \/ Construct
    \/ Dispatch
    \/ Navigate
    \/ NavigateDispatchRaises
    \/ DispatchUpdateRaises

SpecFailure == InitFailure /\ [][NextFailure]_vars

\* The application dispatches an action to a store that has another
\* subscriber, subscribed before or after the engine, which dispatches an
\* action of its own when the store notifies it.
DispatchReentrant ==
    /\ constructed
    /\ \E a \in AppActions, b \in AppActions, first \in BOOLEAN :
          Becomes(storeDispatch([World EXCEPT !.reaction = <<b>>,
                                              !.otherFirst = first], a),
                  "dispatch", <<a, b>>)
    /\ UNCHANGED <<constructed, unsubscribed>>

InitReentrant == Init /\ initialTruth = "location" /\ ~replaceState

NextReentrant == Construct \/ Dispatch \/ Navigate \/ DispatchReentrant

SpecReentrant == InitReentrant /\ [][NextReentrant]_vars

\* The arrays the application keeps in state.selection: the default array
\* itself, an empty array of its own, and arrays of the numbers 1 and 2.
Selections ==
    {DefaultArray}
        \cup {Array(items) : items \in {<<>>, <<1>>, <<2>>, <<1, 2>>}}

\* What an external navigation writes for `selection`: a number, a string
\* that is no number, and the string the engine writes for [1, 2].
SelectionPairs ==
    ({"selection"} \X {"1", "2", "x", "1,2"}) \cup {<<"other", "keep">>}

SelectionLocations ==
    {[pathname |-> "/", search |-> search, hash |-> "", state |-> Undefined] :
        search \in {EmptySearch}
                      \cup {SearchOf(pairs) :
                               pairs \in UNION {[1..n -> SelectionPairs] :
                                                  n \in 0..2}}}

\* The application dispatches its action that sets the selection.
DispatchSelection ==
    /\ constructed
    /\ \E selection \in Selections :
          LET a == action("selection", selection)
          IN  Becomes(storeDispatch(World, a), "dispatch", <<a>>)
    /\ UNCHANGED <<constructed, unsubscribed>>

\* The location changes from outside the engine, on the page whose
\* parameter is `selection`.
NavigateSelection ==
    /\ constructed
    /\ \E newLocation \in SelectionLocations :
          LET moved == [World EXCEPT !.location = newLocation]
          IN  Becomes(IF listening
                      THEN handleLocationUpdate(moved, newLocation)
                      ELSE moved,
                      "navigate", <<newLocation>>)
    /\ UNCHANGED <<constructed, unsubscribed>>

\* The engine with the README's parameter `selection`.
InitMultiple ==
    /\ state \in [selection : Selections]
    /\ location \in SelectionLocations
    /\ params = <<"selection">>
    /\ replaceState \in BOOLEAN
    /\ initialTruth \in {"location", "store"}
    /\ historyOption = Undefined
    /\ NotConstructed

NextMultiple == Construct \/ DispatchSelection \/ NavigateSelection

SpecMultiple == InitMultiple /\ [][NextMultiple]_vars


(* ------------------------------- claims -------------------------------- *)

\* The values a key has in a location's query string, in order.
ValuesOf(loc, key) ==
    LET hits == SelectSeq(loc.search.pairs, LAMBDA pair : pair[1] = key)
    IN  [i \in 1..Len(hits) |-> hits[i][2]]

\* The query string shows the parameter as the state has it: no pair of the
\* key for the default value, else one pair with the encoded value.
Reflected(loc, st, param) ==
    IF selector(param, st) = defaultValue(param)
    THEN ValuesOf(loc, param) = <<>>
    ELSE ValuesOf(loc, param) = <<valueToString(param, selector(param, st))>>

\* The decoded value of a parameter in a location.
Decoded(loc, param) ==
    IF ValuesOf(loc, param) = <<>>
    THEN defaultValue(param)
    ELSE stringToValue(param, ValuesOf(loc, param)[1])

DecodedValues(loc) == [param \in ParamSet |-> Decoded(loc, param)]

\* The parameter's decoded value is new to the cache and to the state.
Wanted(cache, st, loc, param) ==
    /\ cache = NoQueryValues \/ cache[param] # Decoded(loc, param)
    /\ selector(param, st) # Decoded(loc, param)

\* One action per wanted parameter, `p` before `dest`.
ExpectedActions(cache, st, loc) ==
    (IF Wanted(cache, st, loc, "p")
     THEN <<action("p", Decoded(loc, "p"))>> ELSE <<>>)
    \o (IF Wanted(cache, st, loc, "dest")
        THEN <<action("dest", Decoded(loc, "dest"))>> ELSE <<>>)

\* The type of the actions a parameter's action creator makes.
ActionType(param) == action(param, defaultValue(param)).type

DispatchedFor(log, param) ==
    \E i \in DOMAIN log.dispatched : log.dispatched[i].type = ActionType(param)

\* The pairs of the keys that are no configured parameters.
Unrelated(loc) ==
    SelectSeq(loc.search.pairs, LAMBDA pair : pair[1] \notin ParamSet)

\* C1: after every pass of handleStateUpdate that its guard lets through, the
\* query string has no pair of a parameter whose state value is the default
\* and exactly one pair, with the encoded state value, of every other one.
StateReflectedInQuery ==
    last.log.statePasses > 0 =>
        \A param \in ParamSet : Reflected(location, state, param)

\* A dispatch that set both parameters to their defaults made the engine
\* navigate, to a query string without them.
StateReflectedInQueryWitness ==
    /\ last.event = "dispatch"
    /\ last.log.statePasses = 1
    /\ Len(last.log.navigations) = 1
    /\ \A param \in ParamSet : selector(param, state) = defaultValue(param)
    /\ \A param \in ParamSet : ValuesOf(location, param) = <<>>

\* C2: in every quiescent state after a state change or an external location
\* change (of an engine constructed with an initialTruth), a parameter whose
\* state value is the default has no pair in the query string.
DefaultNeverInQuery ==
    (last.event \in {"dispatch", "navigate"} /\ initialTruth # Undefined) =>
        \A param \in ParamSet :
            selector(param, state) = defaultValue(param) =>
                ValuesOf(location, param) = <<>>

\* C3: every step leaves the pairs of the keys that are no configured
\* parameters as they were (as the external navigation wrote them, when the
\* step is one).
UnrelatedPreserved ==
    [][Unrelated(location')
         = Unrelated(IF last'.event = "navigate"
                     THEN last'.delivered[1] ELSE location)]_vars

\* The engine navigated for a state change while the query string held an
\* unrelated key.
UnrelatedPreservedWitness ==
    /\ last.event = "dispatch"
    /\ Len(last.log.navigations) = 1
    /\ Unrelated(location) # <<>>
    /\ \E param \in ParamSet : ValuesOf(location, param) # <<>>

\* The location a step's location observer pass was called with: the one an
\* external navigation wrote, or the current one during construction.
Observed ==
    IF last'.event = "navigate" THEN last'.delivered[1] ELSE location

\* C4: a pass of handleLocationUpdate that its guard lets through (for an
\* external location change, or during construction with the cache still
\* undefined) dispatches, in key order, one action for every parameter whose
\* decoded value differs from the cached value (or the cache is undefined)
\* and from the state's value, and leaves the decoded values in the cache.
LocationChangeDispatches ==
    [][last'.log.locationPasses > 0 =>
          /\ last'.log.locationPasses = 1
          /\ last'.log.dispatched
               = ExpectedActions(lastQueryValues, state, Observed)
          /\ lastQueryValues' = DecodedValues(Observed)]_vars

\* A location change that made the engine dispatch for both parameters.
LocationChangeDispatchesWitness ==
    /\ last.event = "navigate"
    /\ Len(last.log.dispatched) = 2
    /\ last.log.dispatched[1].type = ActionType("p")
    /\ last.log.dispatched[2].type = ActionType("dest")
    /\ lastQueryValues = DecodedValues(location)

\* C5: a pass of handleLocationUpdate dispatches no action for a parameter
\* whose decoded value the state already holds.
NoRedundantDispatch ==
    [][last'.log.locationPasses > 0 =>
          \A param \in ParamSet :
              selector(param, state) = Decoded(Observed, param) =>
                  ~DispatchedFor(last'.log, param)]_vars

\* A location change whose value for `p` was new to the cache but not to the
\* state: nothing was dispatched for it.
NoRedundantDispatchWitness ==
    /\ last.event = "navigate"
    /\ "p" \in last.log.changed
    /\ selector("p", state) = Decoded(location, "p")
    /\ ~DispatchedFor(last.log, "p")
    /\ DispatchedFor(last.log, "dest")

\* C6: when handleLocationUpdate dispatches, every notification of the store
\* finds handleStateUpdate's guard set: the state observer never runs, nothing
\* is navigated, the location stays as delivered and the location observer
\* runs once.
LoopSuppression ==
    last.log.dispatched # <<>> =>
        /\ last.log.stateIgnored = Len(last.log.dispatched)
        /\ last.log.statePasses = 0
        /\ last.log.navigations = <<>>
        /\ last.log.locationPasses = 1
        /\ last.log.locationIgnored = 0
        /\ last.event = "navigate" => location = last.delivered[1]

\* A location change with two dispatches, both ignored by the state observer,
\* that left state and query string apart (`p=x` decodes to the default).
LoopSuppressionWitness ==
    /\ last.event = "navigate"
    /\ Len(last.log.dispatched) = 2
    /\ last.log.stateIgnored = 2
    /\ \E param \in ParamSet : ~Reflected(location, state, param)

\* C7: when the state observer has just run and the store notifies it again
\* with the state unchanged, the second run navigates nowhere and leaves the
\* location as the first run, which navigated at most once, left it.
StateObserverIdempotent ==
    [][(last.log.statePasses > 0 /\ last'.event = "dispatch" /\ state' = state)
          => /\ last'.log.statePasses = 1
             /\ last'.log.navigations = <<>>
             /\ location' = location
             /\ Len(last.log.navigations) <= 1]_vars

\* The store notified the engine of an action that changed nothing while the
\* query string showed a parameter: the state observer ran and did not
\* navigate.
StateObserverIdempotentWitness ==
    /\ last.event = "dispatch"
    /\ last.delivered[1].type = "@@other"
    /\ last.log.statePasses = 1
    /\ last.log.navigations = <<>>
    /\ ValuesOf(location, "p") # <<>>

\* C8: with initialTruth 'location', construction runs the location observer
\* once with the cache undefined, dispatches an action for every parameter
\* whose decoded value differs from the state, and leaves the location
\* normalised from the resulting state.
ConstructFromLocationNormalises ==
    [][(~constructed /\ constructed' /\ initialTruth = "location") =>
          /\ last'.log.locationPasses = 1
          /\ last'.log.dispatched
               = ExpectedActions(NoQueryValues, state, location)
          /\ \A param \in ParamSet : Reflected(location', state', param)]_vars

\* C9: with initialTruth 'store', construction runs the state observer once,
\* which writes the state's values into the query string, and every navigation
\* it performs is a replace.
ConstructFromStoreReplaces ==
    (last.event = "construct" /\ initialTruth = "store") =>
        /\ last.log.statePasses = 1
        /\ \A param \in ParamSet : Reflected(location, state, param)
        /\ \A i \in DOMAIN last.log.navigations :
              last.log.navigations[i].method = "replace"

\* C10: when initialTruth is not 'location', construction dispatches nothing
\* and leaves in the cache the decoded values of the current location; when
\* initialTruth is unset it runs no observer and navigates nowhere.
ConstructWithoutLocationTruth ==
    (last.event = "construct" /\ initialTruth # "location") =>
        /\ last.log.dispatched = <<>>
        /\ last.log.locationPasses = 0
        /\ lastQueryValues = DecodedValues(location)
        /\ initialTruth = Undefined =>
              /\ last.log.navigations = <<>>
              /\ last.log.statePasses = 0

\* Constructed with initialTruth unset while state and location disagree:
\* they still do.
ConstructWithoutLocationTruthWitness ==
    /\ last.event = "construct"
    /\ initialTruth = Undefined
    /\ last.log.dispatched = <<>>
    /\ \E param \in ParamSet : selector(param, state) # lastQueryValues[param]
    /\ \E param \in ParamSet : ~Reflected(location, state, param)

\* C11: once the function ReduxQuerySync returned has been called, no event
\* makes the engine do anything: a state change navigates nowhere, a location
\* change dispatches nothing, no handler runs and the cache stays as it was.
NothingAfterUnsubscribe ==
    [][unsubscribed =>
          /\ last'.log = EmptyLog
          /\ lastQueryValues' = lastQueryValues
          /\ last'.event = "dispatch" => location' = location
          /\ last'.event = "navigate" => state' = state]_vars

\* After the teardown a location change and a state change went by, and the
\* state, the location and the cache disagree.
NothingAfterUnsubscribeWitness ==
    /\ unsubscribed
    /\ last.event = "dispatch"
    /\ last.log = EmptyLog
    /\ \E param \in ParamSet :
          /\ ~Reflected(location, state, param)
          /\ Decoded(location, param) # lastQueryValues[param]
          /\ selector(param, state) # lastQueryValues[param]

\* C14: after every pass of handleLocationUpdate that its guard lets through,
\* the query string shows the state the dispatched actions left: every
\* configured key has the encoding of the selector's value, or is absent for
\* the default.
LocationPassNormalises ==
    last.log.locationPasses > 0 =>
        \A param \in ParamSet : Reflected(location, state, param)

\* C15: after a pass of handleStateUpdate the query string has no pair of a
\* parameter whose state value has the encoding of the default value, also
\* when the two values are not strictly equal.
DefaultComparedEncoded ==
    last.log.statePasses > 0 =>
        \A param \in ParamSet :
            valueToString(param, selector(param, state))
                = valueToString(param, defaultValue(param))
            => ValuesOf(location, param) = <<>>

\* C19: in every state after construction the cache holds, for every
\* configured key, the decoded value of the key in the current location's
\* query string (stringToValue undoes valueToString for every value of the
\* state that is not the default).
CacheIsDecodedLocation ==
    constructed => lastQueryValues = DecodedValues(location)

\* The engine navigated for a state change that left both parameters off
\* their defaults, and the cache holds the state's values.
CacheIsDecodedLocationWitness ==
    /\ last.event = "dispatch"
    /\ Len(last.log.navigations) = 1
    /\ \A param \in ParamSet : selector(param, state) # defaultValue(param)
    /\ lastQueryValues = [param \in ParamSet |-> selector(param, state)]
    /\ lastQueryValues = DecodedValues(location)

\* The actions an event's log has for a parameter.
DispatchesFor(log, param) ==
    {i \in DOMAIN log.dispatched : log.dispatched[i].type = ActionType(param)}

\* C20: every external event ends with both guards false; a state change
\* makes the engine navigate at most once and dispatch nothing, with no pass
\* of the location observer; a location change makes it dispatch at most one
\* action per configured parameter, with one pass of the location observer
\* and none of the state observer.
Quiescence ==
    /\ ~ignoreLocationUpdate
    /\ ~ignoreStateUpdate
    /\ last.event = "dispatch" =>
          /\ Len(last.log.navigations) <= 1
          /\ last.log.dispatched = <<>>
          /\ last.log.locationPasses = 0
          /\ last.log.statePasses = 1
    /\ last.event = "navigate" =>
          /\ \A param \in ParamSet :
                Cardinality(DispatchesFor(last.log, param)) <= 1
          /\ last.log.locationPasses = 1
          /\ last.log.statePasses = 0

\* A state change made the engine navigate, and the notification of that
\* navigation found the location observer's guard set.
QuiescenceWitness ==
    /\ last.event = "dispatch"
    /\ Len(last.log.navigations) = 1
    /\ last.log.locationIgnored = 1
    /\ last.log.dispatched = <<>>
    /\ ~ignoreLocationUpdate

\* C13: when options.history is given, the engine works on that object: it
\* is the one it listens to, reads the location of and navigates by, so a
\* navigation the application makes through it reaches the location observer
\* and is the location the engine reads.
SuppliedHistoryUsed ==
    (constructed /\ historyOption # Undefined) =>
        /\ history = historyOption
        /\ last.event = "push" =>
              /\ last.log.locationPasses = 1
              /\ location = last.delivered[1]

\* C16: every step in which handleStateUpdate navigated leaves the path, the
\* hash and the navigation state of the location as they were.
NavigationKeepsPathHashState ==
    [][last'.log.navigations # <<>> =>
          /\ location'.pathname = location.pathname
          /\ location'.hash = location.hash
          /\ location'.state = location.state]_vars

\* C17: an exception of dispatch or of push/replace leaves no guard set.
GuardClearedOnFailure ==
    last.log.raised => (~ignoreStateUpdate /\ ~ignoreLocationUpdate)

ElementStrings(items) == [i \in DOMAIN items |-> Digits[items[i]]]

\* The numbers of the numerals among a key's values, one per occurrence.
ElementValues(strings) ==
    LET valid == SelectSeq(strings, LAMBDA string : Truthy(parseInt(string)))
    IN  [i \in DOMAIN valid |-> parseInt(valid[i])]

\* C12: for the parameter `selection`, configured with multiple, a pass of
\* handleStateUpdate leaves one pair of the key per element of the state's
\* array (when it has elements), and a pass of handleLocationUpdate leaves in
\* the cache the array of the decoded values of all the key's occurrences.
MultipleValuesPerKey ==
    /\ (last.log.statePasses > 0 /\ state.selection.kind # "number"
            /\ state.selection.items # <<>>) =>
          ValuesOf(location, "selection")
              = ElementStrings(state.selection.items)
    /\ (last.log.locationPasses > 0
            /\ ValuesOf(location, "selection") # <<>>) =>
          /\ lastQueryValues["selection"].kind = "array"
          /\ lastQueryValues["selection"].items
               = ElementValues(ValuesOf(location, "selection"))

====
